---- MODULE Spec2Model ----
(***************************************************************************)
(* A model of TrafficManagement.cpp: the TrafficLight state machine,       *)
(* Vehicle::move with its stop-line rule, Lane::update with its erase      *)
(* loop, and the Simulation driven by main's loop (update(1); display()).  *)
(*                                                                         *)
(* Objects allocated with new are cells of a heap: a Vehicle* is an index  *)
(* into `heap`, a Lane* an index into `lanes`, 0 is nullptr.               *)
(*                                                                         *)
(* Positions and lengths are counted in units of 1/PosUnit metre, so that  *)
(* the km/h -> m/s conversion of Vehicle::move is exact for the integer    *)
(* speeds drawn here.                                                      *)
(***************************************************************************)
EXTENDS Integers, Sequences, FiniteSets, TLC

(***************************************************************************)
(* Bounds of the model.                                                    *)
(***************************************************************************)
\* at most this many vehicles are spawned in one run
MaxVehicles == 2
\* the draw of Simulation::update comes out below 0.3 only in the first ticks
LastSpawnTick == 3
\* steps passed to a stand-alone TrafficLight::update
MaxStep == 12

\* speeds (km/h) drawn by speedDist(20, 50): the least speed; 36 km/h = 10 m/s, which
\* lands exactly on the stop lines and on the end of the 500 m lane; and 39 km/h,
\* which meets the stop line of either lane under RED, YELLOW or GREEN depending on
\* the spawn tick. For these three the program's double arithmetic takes the same
\* branches as the exact arithmetic used here.
Speeds == {20, 36, 39}
\* types drawn by typeDist(0, 3); the type decides nothing but the letter display draws
Types == {"CAR"}

(***************************************************************************)
(* Program constants.                                                      *)
(***************************************************************************)
\* position units per metre
PosUnit == 18
\* isRunning: simTime < 60
SimEnd == 60
\* std::string road(50, '-')
RoadSize == 50

(***************************************************************************)
(* TrafficLight                                                            *)
(***************************************************************************)
\* TrafficLight(int g, int y, int r) starting in GREEN
TrafficLightStartsGreen(g, y, r) ==
    [state |-> "GREEN", greenTime |-> g, yellowTime |-> y, redTime |-> r, timer |-> 0]

\* TrafficLight(int g, int y, int r)
TrafficLight(g, y, r) ==
    [state |-> "RED", greenTime |-> g, yellowTime |-> y, redTime |-> r, timer |-> 0]

\* TrafficLight::update with the GREEN case going straight to RED
LightUpdateSkipsYellow(light, step) ==
    LET t == light.timer + step IN
    CASE light.state = "GREEN" ->
            IF t >= light.greenTime
            THEN [light EXCEPT !.state = "RED", !.timer = 0]
            ELSE [light EXCEPT !.timer = t]
      [] light.state = "YELLOW" ->
            IF t >= light.yellowTime
            THEN [light EXCEPT !.state = "RED", !.timer = 0]
            ELSE [light EXCEPT !.timer = t]
      [] light.state = "RED" ->
            IF t >= light.redTime
            THEN [light EXCEPT !.state = "GREEN", !.timer = 0]
            ELSE [light EXCEPT !.timer = t]

\* TrafficLight::update with > for >= in its three comparisons
LightUpdateLate(light, step) ==
    LET t == light.timer + step IN
    CASE light.state = "GREEN" ->
            IF t > light.greenTime
            THEN [light EXCEPT !.state = "YELLOW", !.timer = 0]
            ELSE [light EXCEPT !.timer = t]
      [] light.state = "YELLOW" ->
            IF t > light.yellowTime
            THEN [light EXCEPT !.state = "RED", !.timer = 0]
            ELSE [light EXCEPT !.timer = t]
      [] light.state = "RED" ->
            IF t > light.redTime
            THEN [light EXCEPT !.state = "GREEN", !.timer = 0]
            ELSE [light EXCEPT !.timer = t]

\* TrafficLight::update carrying the excess over the duration into the next state
LightUpdateCarry(light, step) ==
    LET t == light.timer + step IN
    CASE light.state = "GREEN" ->
            IF t >= light.greenTime
            THEN [light EXCEPT !.state = "YELLOW", !.timer = t - light.greenTime]
            ELSE [light EXCEPT !.timer = t]
      [] light.state = "YELLOW" ->
            IF t >= light.yellowTime
            THEN [light EXCEPT !.state = "RED", !.timer = t - light.yellowTime]
            ELSE [light EXCEPT !.timer = t]
      [] light.state = "RED" ->
            IF t >= light.redTime
            THEN [light EXCEPT !.state = "GREEN", !.timer = t - light.redTime]
            ELSE [light EXCEPT !.timer = t]

\* TrafficLight::update(int step)
LightUpdate(light, step) ==
    LET t == light.timer + step IN
    CASE light.state = "GREEN" ->
            IF t >= light.greenTime
            THEN [light EXCEPT !.state = "YELLOW", !.timer = 0]
            ELSE [light EXCEPT !.timer = t]
      [] light.state = "YELLOW" ->
            IF t >= light.yellowTime
            THEN [light EXCEPT !.state = "RED", !.timer = 0]
            ELSE [light EXCEPT !.timer = t]
      [] light.state = "RED" ->
            IF t >= light.redTime
            THEN [light EXCEPT !.state = "GREEN", !.timer = 0]
            ELSE [light EXCEPT !.timer = t]

(***************************************************************************)
(* Vehicle                                                                 *)
(***************************************************************************)
\* Vehicle(int id, VehicleType type, double speed)
Vehicle(id, type, speed) ==
    [id |-> id, type |-> type, speed |-> speed, position |-> 0, currentLane |-> 0]

\* Vehicle::getSymbol
VehicleSymbol(v) ==
    CASE v.type = "CAR" -> "C"
      [] v.type = "BUS" -> "B"
      [] v.type = "TRUCK" -> "T"
      [] v.type = "MOTORCYCLE" -> "M"
      [] OTHER -> "?"

\* speed * 1000.0 / 3600.0, in position units per time unit
Mps(speed) == (speed * 1000 * PosUnit) \div 3600

\* currentLane->getLength() - 10
StopLine(lane) == lane.length - 10 * PosUnit

\* the condition of Vehicle::move without its test of the light
MustStopAnyLight(v, lane, timeStep) ==
    LET nextPos == v.position + Mps(v.speed) * timeStep IN
    /\ v.position < StopLine(lane)
    /\ nextPos >= StopLine(lane)

\* the condition of Vehicle::move without its test that the position is before the line
MustStopPastLine(v, lane, timeStep) ==
    LET nextPos == v.position + Mps(v.speed) * timeStep IN
    /\ lane.light.state # "GREEN"
    /\ nextPos >= StopLine(lane)

\* the condition of the if in Vehicle::move
MustStop(v, lane, timeStep) ==
    LET nextPos == v.position + Mps(v.speed) * timeStep IN
    /\ lane.light.state # "GREEN"
    /\ v.position < StopLine(lane)
    /\ nextPos >= StopLine(lane)

\* Vehicle::move without the return of its stop branch: speed zeroed, position advanced
MoveNoReturn(v, ls, timeStep) ==
    IF v.currentLane = 0 THEN v
    ELSE IF MustStop(v, ls[v.currentLane], timeStep)
         THEN [v EXCEPT !.speed = 0, !.position = v.position + Mps(v.speed) * timeStep]
         ELSE [v EXCEPT !.position = v.position + Mps(v.speed) * timeStep]

\* Vehicle::move with resumption logic: a stopped vehicle takes the lane's speed
\* limit again once the light is GREEN
MoveResumes(v, ls, timeStep) ==
    IF v.currentLane = 0 THEN v
    ELSE IF MustStop(v, ls[v.currentLane], timeStep)
         THEN [v EXCEPT !.speed = 0]
         ELSE IF v.speed = 0 /\ ls[v.currentLane].light.state = "GREEN"
              THEN [v EXCEPT !.speed = ls[v.currentLane].speedLimit]
              ELSE [v EXCEPT !.position = v.position + Mps(v.speed) * timeStep]

\* Vehicle::move with a stop branch that puts the vehicle 5 m before the stop line
MoveSnapsBack(v, ls, timeStep) ==
    IF v.currentLane = 0 THEN v
    ELSE IF MustStop(v, ls[v.currentLane], timeStep)
         THEN [v EXCEPT !.speed = 0,
                        !.position = StopLine(ls[v.currentLane]) - 5 * PosUnit]
         ELSE [v EXCEPT !.position = v.position + Mps(v.speed) * timeStep]

\* Vehicle::move(double timeStep); ls is the lanes the vehicle's currentLane points into
Move(v, ls, timeStep) ==
    IF v.currentLane = 0 THEN v
    ELSE IF MustStop(v, ls[v.currentLane], timeStep)
         THEN [v EXCEPT !.speed = 0]
         ELSE [v EXCEPT !.position = v.position + Mps(v.speed) * timeStep]

(***************************************************************************)
(* Lane                                                                    *)
(***************************************************************************)
\* Lane(int id, double len, double limit)
Lane(id, len, limit) ==
    [id |-> id, length |-> len * PosUnit, speedLimit |-> limit,
     vehicles |-> <<>>, light |-> TrafficLight(10, 3, 7)]

\* vehicles.erase(it): the sequence without its element at index i
Erase(s, i) == [j \in 1..(Len(s) - 1) |-> IF j < i THEN s[j] ELSE s[j + 1]]

\* the loop of Lane::update with ++it made after an erase too
RECURSIVE LaneLoopSkips(_, _, _, _, _)
LaneLoopSkips(ls, h, li, it, timeStep) ==
    IF it > Len(ls[li].vehicles) THEN [lanes |-> ls, heap |-> h]
    ELSE LET p == ls[li].vehicles[it]
             h2 == [h EXCEPT ![p] = Move(h[p], ls, timeStep)]
         IN IF h2[p].position >= ls[li].length
            THEN LaneLoopSkips([ls EXCEPT ![li].vehicles = Erase(ls[li].vehicles, it)],
                               h2, li, it + 1, timeStep)
            ELSE LaneLoopSkips(ls, h2, li, it + 1, timeStep)

\* The loop of Lane::update with > for >= in its test against the length
RECURSIVE LaneLoopStrict(_, _, _, _, _)
LaneLoopStrict(ls, h, li, it, timeStep) ==
    IF it > Len(ls[li].vehicles) THEN [lanes |-> ls, heap |-> h]
    ELSE LET p == ls[li].vehicles[it]
             h2 == [h EXCEPT ![p] = Move(h[p], ls, timeStep)]
         IN IF h2[p].position > ls[li].length
            THEN LaneLoopStrict([ls EXCEPT ![li].vehicles = Erase(ls[li].vehicles, it)],
                                h2, li, it, timeStep)
            ELSE LaneLoopStrict(ls, h2, li, it + 1, timeStep)

\* The for loop of Lane::update over lane li, with the iterator at index it;
\* yields the lanes and the heap at the end of the loop.
RECURSIVE LaneLoop(_, _, _, _, _)
LaneLoop(ls, h, li, it, timeStep) ==
    IF it > Len(ls[li].vehicles) THEN [lanes |-> ls, heap |-> h]
    ELSE LET p == ls[li].vehicles[it]
             h2 == [h EXCEPT ![p] = Move(h[p], ls, timeStep)]
         IN IF h2[p].position >= ls[li].length
            THEN LaneLoop([ls EXCEPT ![li].vehicles = Erase(ls[li].vehicles, it)],
                          h2, li, it, timeStep)
            ELSE LaneLoop(ls, h2, li, it + 1, timeStep)

\* Lane::update with the light advanced after the vehicles
LaneUpdateLightLast(ls, h, li, timeStep) ==
    LET r == LaneLoop(ls, h, li, 1, timeStep)
    IN [lanes |-> [r.lanes EXCEPT ![li].light = LightUpdate(ls[li].light, timeStep)],
        heap |-> r.heap]

\* Lane::update(int timeStep) on lane li
LaneUpdate(ls, h, li, timeStep) ==
    LaneLoop([ls EXCEPT ![li].light = LightUpdate(ls[li].light, timeStep)],
             h, li, 1, timeStep)

\* Lane::addVehicle without its call of setCurrentLane
AddVehicleNoBackRef(ls, h, li, p) ==
    [lanes |-> [ls EXCEPT ![li].vehicles = Append(ls[li].vehicles, p)],
     heap |-> h]

\* Lane::addVehicle(Vehicle* v) on lane li, v being the heap cell p
AddVehicle(ls, h, li, p) ==
    [lanes |-> [ls EXCEPT ![li].vehicles = Append(ls[li].vehicles, p)],
     heap |-> [h EXCEPT ![p].currentLane = li]]

(***************************************************************************)
(* Simulation and main                                                     *)
(***************************************************************************)
VARIABLES
    pc,        \* main's position: "setup", "loop" (the while test), "display", "done"
    lanes,     \* Simulation::lanes, the Lane objects by value (a Lane* is an index)
    heap,      \* the Vehicle objects created by new, in creation order (a Vehicle* is an index)
    vehicles,  \* Simulation::vehicles, a sequence of Vehicle*
    nextId,    \* Simulation::nextId
    simTime,   \* Simulation::simTime
    screen,    \* what the last Simulation::display printed, per lane
    updates,   \* observer: number of Simulation::update calls made so far
    dwell      \* observer: per lane, Lane::update calls since its light entered its state

vars == <<pc, lanes, heap, vehicles, nextId, simTime, screen, updates, dwell>>

\* Simulation::generateVehicle with nextId in place of nextId++
GenerateVehicleSameId(ls, h, vs, nid, type, speed, laneIndex) ==
    LET p == Len(h) + 1
        added == AddVehicle(ls, Append(h, Vehicle(nid, type, speed)), laneIndex + 1, p)
    IN [lanes |-> added.lanes, heap |-> added.heap,
        vehicles |-> Append(vs, p), nextId |-> nid]

\* Simulation::generateVehicle with the three draws of its distributions
GenerateVehicle(ls, h, vs, nid, type, speed, laneIndex) ==
    LET p == Len(h) + 1
        added == AddVehicle(ls, Append(h, Vehicle(nid, type, speed)), laneIndex + 1, p)
    IN [lanes |-> added.lanes, heap |-> added.heap,
        vehicles |-> Append(vs, p), nextId |-> nid + 1]

\* for (auto lane : lanes) lane->update(step), from lane li on
RECURSIVE UpdateLanes(_, _, _, _)
UpdateLanes(ls, h, li, step) ==
    IF li > Len(ls) THEN [lanes |-> ls, heap |-> h]
    ELSE LET r == LaneUpdate(ls, h, li, step)
         IN UpdateLanes(r.lanes, r.heap, li + 1, step)

\* Simulation::isRunning with <= for <
IsRunningInclusive == simTime <= SimEnd

\* Simulation::isRunning
IsRunning == simTime < SimEnd

\* The outcomes of the draw "< 0.3" of Simulation::update that the model lets happen
SpawnDraws == IF nextId <= MaxVehicles /\ simTime < LastSpawnTick
              THEN {TRUE, FALSE} ELSE {FALSE}

\* observer of the lights: calls since the light of lane li entered its state
DwellAfter(old, new, d) ==
    [li \in DOMAIN new |->
        IF new[li].light.state # old[li].light.state THEN 0 ELSE d[li] + 1]

\* Simulation::update with the lanes updated before the vehicle is generated
SimUpdateSpawnLast(step, spawn, type, speed, laneIndex) ==
    LET r == UpdateLanes(lanes, heap, 1, step)
        g == IF spawn
             THEN GenerateVehicle(r.lanes, r.heap, vehicles, nextId, type, speed, laneIndex)
             ELSE [lanes |-> r.lanes, heap |-> r.heap, vehicles |-> vehicles,
                   nextId |-> nextId]
    IN /\ simTime' = simTime + step
       /\ lanes' = g.lanes
       /\ heap' = g.heap
       /\ vehicles' = g.vehicles
       /\ nextId' = g.nextId
       /\ updates' = updates + 1
       /\ dwell' = DwellAfter(lanes, g.lanes, dwell)

\* Simulation::update(int step), the draw having come out as spawn
SimUpdate(step, spawn, type, speed, laneIndex) ==
    LET g == IF spawn
             THEN GenerateVehicle(lanes, heap, vehicles, nextId, type, speed, laneIndex)
             ELSE [lanes |-> lanes, heap |-> heap, vehicles |-> vehicles, nextId |-> nextId]
        r == UpdateLanes(g.lanes, g.heap, 1, step)
    IN /\ simTime' = simTime + step
       /\ lanes' = r.lanes
       /\ heap' = r.heap
       /\ vehicles' = g.vehicles
       /\ nextId' = g.nextId
       /\ updates' = updates + 1
       /\ dwell' = DwellAfter(lanes, r.lanes, dwell)

\* the index of display with the product rounded to the nearest integer
RoadIndexRounded(v, lane, low) ==
    (2 * v.position * RoadSize + lane.length) \div (2 * lane.length)

\* static_cast<int>((v->getPosition() / lane->getLength()) * road.size()).
\* The doubles are sums of rounded terms: where the exact product is a whole number
\* the computed one may fall just below it and truncate to one less (at 20 km/h
\* the 27th position is 149.99999999999997 and the index 14, not 15); low says
\* whether it does. Anywhere else the product is at least 1/10800 away from a whole
\* number and the truncation is the exact floor.
RoadIndex(v, lane, low) ==
    LET exact == (v.position * RoadSize) \div lane.length
    IN IF low /\ exact > 0 /\ (v.position * RoadSize) % lane.length = 0
       THEN exact - 1
       ELSE exact

\* the inner loop of Simulation::display over one lane's vehicles, from index i on;
\* road is kept 1-based; marks logs each visited Vehicle* with its computed index
\* and whether the loop wrote road[pos]; lows are the Vehicle* whose index
\* computation falls below a whole number
RECURSIVE DrawLane(_, _, _, _, _)
DrawLane(lane, road, marks, i, lows) ==
    IF i > Len(lane.vehicles) THEN [road |-> road, marks |-> marks]
    ELSE LET p == lane.vehicles[i]
             pos == RoadIndex(heap[p], lane, p \in lows)
             wrote == pos >= 0 /\ pos < 50
             road2 == IF wrote
                      THEN [road EXCEPT ![pos + 1] = VehicleSymbol(heap[p])]
                      ELSE road
         IN DrawLane(lane, road2, Append(marks, <<p, pos, wrote>>), i + 1, lows)

\* TrafficLight::getSymbol
LightSymbol(light) ==
    CASE light.state = "GREEN" -> "green"
      [] light.state = "YELLOW" -> "yellow"
      [] light.state = "RED" -> "red"
      [] OTHER -> "?"

\* Simulation::display
Display(lows) ==
    [li \in DOMAIN lanes |->
        LET d == DrawLane(lanes[li], [k \in 1..RoadSize |-> "-"], <<>>, 1, lows)
        IN [time |-> simTime, light |-> LightSymbol(lanes[li].light),
            road |-> d.road, marks |-> d.marks]]

Init ==
    /\ pc = "setup"
    /\ lanes = <<>>
    /\ heap = <<>>
    /\ vehicles = <<>>
    /\ nextId = 1
    /\ simTime = 0
    /\ screen = <<>>
    /\ updates = 0
    /\ dwell = <<>>

\* Simulation::setup
Setup ==
    /\ pc = "setup"
    /\ lanes' = <<Lane(1, 500, 50), Lane(2, 600, 40)>>
    /\ dwell' = <<0, 0>>
    /\ pc' = "loop"
    /\ UNCHANGED <<heap, vehicles, nextId, simTime, screen, updates>>

\* a caller's loop step "while (sim.isRunning()) sim.update(step)" with step drawn
\* from steps and the draw of update coming out at or above 0.3: no vehicle generated
CallUpdateNoSpawn(steps) ==
    /\ pc = "loop"
    /\ IsRunning
    /\ FALSE \in SpawnDraws
    /\ \E step \in steps : SimUpdate(step, FALSE, "CAR", 0, 0)
    /\ pc' = "display"
    /\ UNCHANGED screen

\* the same with the draw coming out below 0.3: a vehicle generated
CallUpdateSpawn(steps) ==
    /\ pc = "loop"
    /\ IsRunning
    /\ TRUE \in SpawnDraws
    /\ \E step \in steps, type \in Types, speed \in Speeds,
          laneIndex \in 0..(Len(lanes) - 1) :
          SimUpdate(step, TRUE, type, speed, laneIndex)
    /\ pc' = "display"
    /\ UNCHANGED screen

\* main: sim.update(1)
MainUpdateNoSpawn == CallUpdateNoSpawn({1})
MainUpdateSpawn == CallUpdateSpawn({1})

\* a caller passing any positive step to Simulation::update, on a run whose draws
\* all come out at or above 0.3
AnyUpdateNoSpawn == CallUpdateNoSpawn(1..MaxStep)

\* main: sim.display()
MainDisplay ==
    /\ pc = "display"
    /\ \E lows \in SUBSET (UNION {{lanes[li].vehicles[i] : i \in DOMAIN lanes[li].vehicles} :
                                   li \in DOMAIN lanes}) :
          screen' = Display(lows)
    /\ pc' = "loop"
    /\ UNCHANGED <<lanes, heap, vehicles, nextId, simTime, updates, dwell>>

\* main: the loop ends, "Simulation ended."
MainEnd ==
    /\ pc = "loop"
    /\ ~IsRunning
    /\ pc' = "done"
    /\ UNCHANGED <<lanes, heap, vehicles, nextId, simTime, screen, updates, dwell>>

Next == Setup \/ MainUpdateNoSpawn \/ MainUpdateSpawn \/ MainDisplay \/ MainEnd

Spec == Init /\ [][Next]_vars

\* The Simulation driven by a caller that passes any positive step to update:
\* the lanes' lights under every step, the lanes staying empty
NextAnyStep == Setup \/ AnyUpdateNoSpawn \/ MainDisplay \/ MainEnd

StepSpec == Init /\ [][NextAnyStep]_vars

(***************************************************************************)
(* Vocabulary of the properties                                            *)
(***************************************************************************)
\* the elements of a sequence
ToSet(seq) == {seq[i] : i \in DOMAIN seq}

\* the Vehicle* held by some lane's collection
InLanes(ls) == UNION {ToSet(ls[li].vehicles) : li \in DOMAIN ls}

\* a step of the model that is one call of Simulation::update
IsUpdateStep == pc = "loop" /\ pc' = "display"

\* the cycle GREEN -> YELLOW -> RED -> GREEN
CycleNext(state) ==
    CASE state = "GREEN" -> "YELLOW"
      [] state = "YELLOW" -> "RED"
      [] state = "RED" -> "GREEN"

\* the durations green=10, yellow=3, red=7
DwellTime(state) ==
    CASE state = "GREEN" -> 10
      [] state = "YELLOW" -> 3
      [] state = "RED" -> 7

\* the stop-line case of a vehicle at position pos with speed speed (km/h), on a
\* lane of length len whose light shows lightState, for a move of one time unit
FreezeCase(pos, speed, len, lightState) ==
    /\ lightState # "GREEN"
    /\ pos < len - 10 * PosUnit
    /\ pos + Mps(speed) >= len - 10 * PosUnit

\* the stop-line case of the heap cell p of lane li in a call of Simulation::update:
\* its position and speed before the call, the light as Lane::update has just set it
FreezesNow(li, p) ==
    FreezeCase(heap[p].position, heap[p].speed, lanes[li].length, lanes'[li].light.state)

(***************************************************************************)
(* C1: under every positive step, a TrafficLight::update leaves the state  *)
(* of the light unchanged or moves it along GREEN -> YELLOW, YELLOW -> RED *)
(* or RED -> GREEN; no other transition occurs.                            *)
(***************************************************************************)
C1_OnlyCyclicTransitions ==
    [][\A li \in DOMAIN lanes :
          \/ lanes'[li].light.state = lanes[li].light.state
          \/ lanes'[li].light.state = CycleNext(lanes[li].light.state)]_vars

\* a light that has just gone GREEN -> YELLOW under steps that were not all 1
C1_Witness ==
    /\ pc = "display"
    /\ updates < simTime
    /\ \E li \in DOMAIN lanes : lanes[li].light.state = "YELLOW" /\ dwell[li] = 0

(***************************************************************************)
(* C2: with update(1) calls a light leaves its state exactly on the update *)
(* at which it has spent that state's duration there (10 updates in GREEN, *)
(* 3 in YELLOW, 7 in RED) and never earlier.                               *)
(***************************************************************************)
C2_LeavesExactlyAtDuration ==
    [][IsUpdateStep =>
         \A li \in DOMAIN lanes :
            LET st == lanes[li].light.state IN
            IF dwell[li] + 1 = DwellTime(st)
            THEN lanes'[li].light.state = CycleNext(st)
            ELSE /\ lanes'[li].light.state = st
                 /\ dwell[li] + 1 < DwellTime(st)]_vars

\* a light still GREEN after 9 updates in GREEN
C2_Witness ==
    \E li \in DOMAIN lanes : lanes[li].light.state = "GREEN" /\ dwell[li] = 9

(***************************************************************************)
(* C3: stop-line freeze. When Vehicle::move is called under a light that   *)
(* is not GREEN, with the position before length-10 and the candidate      *)
(* position at or past length-10, the speed is 0 afterwards and the        *)
(* position is the one before the call.                                    *)
(***************************************************************************)
C3_StopLineFreeze ==
    [][IsUpdateStep =>
         \A li \in DOMAIN lanes : \A p \in ToSet(lanes[li].vehicles) :
            FreezesNow(li, p) =>
               /\ heap'[p].speed = 0
               /\ heap'[p].position = heap[p].position]_vars

\* a vehicle stopped before the stop line of its lane under a RED or YELLOW light,
\* one move of a drawn speed away from the line
C3_Witness ==
    /\ pc = "display"
    /\ \E li \in DOMAIN lanes : \E p \in ToSet(lanes[li].vehicles) :
          /\ heap[p].speed = 0
          /\ \E speed \in Speeds :
                FreezeCase(heap[p].position, speed, lanes[li].length,
                           lanes[li].light.state)

(***************************************************************************)
(* C4: permanent stall. Once the stop-line rule has set a vehicle's speed  *)
(* to 0, its speed stays 0 and its position stays the same in every later  *)
(* state, also under a GREEN light, and it is never removed from its       *)
(* lane's collection.                                                      *)
(***************************************************************************)
C4_PermanentStall ==
    [][\A p \in DOMAIN heap :
          heap[p].speed = 0 =>
             /\ heap'[p].speed = 0
             /\ heap'[p].position = heap[p].position
             /\ p \in ToSet(lanes[heap[p].currentLane].vehicles)
             /\ p \in ToSet(lanes'[heap[p].currentLane].vehicles)]_vars

\* a stopped vehicle that has been through an update under a GREEN light
C4_Witness ==
    \E p \in DOMAIN heap :
       /\ heap[p].speed = 0
       /\ lanes[heap[p].currentLane].light.state = "GREEN"
       /\ dwell[heap[p].currentLane] > 0
       /\ p \in ToSet(lanes[heap[p].currentLane].vehicles)

(***************************************************************************)
(* C5: after every Lane::update each vehicle in the lane's collection has  *)
(* position < length; a vehicle whose position is >= length is in no       *)
(* collection, and no display visits it (the index display computes for a  *)
(* visited vehicle is below the width of the road).                        *)
(***************************************************************************)
C5_ExitedVehiclesErased ==
    /\ \A li \in DOMAIN lanes : \A p \in ToSet(lanes[li].vehicles) :
          heap[p].position < lanes[li].length
    /\ \A p \in DOMAIN heap :
          heap[p].position >= lanes[heap[p].currentLane].length => p \notin InLanes(lanes)
    /\ \A li \in DOMAIN screen : \A k \in DOMAIN screen[li].marks :
          /\ screen[li].marks[k][2] < RoadSize
          /\ pc = "loop" =>
                /\ screen[li].marks[k][1] \in ToSet(lanes[li].vehicles)
                /\ heap[screen[li].marks[k][1]].position < lanes[li].length

\* a vehicle that has left its lane while another is still there, after a display
C5_Witness ==
    /\ pc = "loop"
    /\ \E p \in DOMAIN heap :
          /\ heap[p].position >= lanes[heap[p].currentLane].length
          /\ p \notin InLanes(lanes)
          /\ lanes[heap[p].currentLane].vehicles # <<>>
          /\ screen[heap[p].currentLane].time = simTime

(***************************************************************************)
(* C6: from simTime = 0, calling update(1) while isRunning() is true, the  *)
(* loop ends after exactly 60 updates whatever is spawned: while           *)
(* simTime < 60 isRunning() is true and the loop's step is an update that  *)
(* adds one to simTime; isRunning() is first false at simTime = 60, where  *)
(* the loop's step is main's end, after 60 updates.                        *)
(***************************************************************************)
C6_TerminatesAfter60 ==
    [][/\ pc = "loop" /\ simTime < 60 =>
             /\ IsRunning
             /\ pc' = "display"
             /\ simTime' = simTime + 1
             /\ updates' = updates + 1
       /\ pc = "loop" /\ simTime >= 60 =>
             /\ ~IsRunning
             /\ simTime = 60
             /\ pc' = "done"
       /\ pc' = "done" => simTime' = 60 /\ updates' = 60]_vars

\* main has ended after 60 updates of a run that spawned vehicles
C6_Witness == pc = "done" /\ updates = 60 /\ Len(heap) = MaxVehicles

(***************************************************************************)
(* C7: while a vehicle is in a lane's collection, its position after a     *)
(* tick is >= its position before the tick, whatever the light shows.      *)
(***************************************************************************)
C7_PositionNeverDecreases ==
    [][IsUpdateStep =>
         \A p \in InLanes(lanes) : heap'[p].position >= heap[p].position]_vars

\* a lane holding a stopped vehicle and one that has advanced
C7_Witness ==
    \E li \in DOMAIN lanes : \E p, q \in ToSet(lanes[li].vehicles) :
       /\ heap[p].speed = 0
       /\ heap[q].speed > 0
       /\ heap[q].position > 0

(***************************************************************************)
(* C8 as stated: for a vehicle in a lane's collection, the ticks on which  *)
(* its position does not advance are exactly the ticks on which the        *)
(* stop-line freeze rule applies; on every other tick its position         *)
(* strictly increases.                                                     *)
(***************************************************************************)
C8_Original ==
    [][IsUpdateStep =>
         \A li \in DOMAIN lanes : \A p \in ToSet(lanes[li].vehicles) :
            IF FreezesNow(li, p)
            THEN heap'[p].position = heap[p].position
            ELSE heap'[p].position > heap[p].position]_vars

(***************************************************************************)
(* C8 as amended: for a vehicle in a lane's collection, the ticks on which *)
(* its position does not advance are exactly the ticks on which the        *)
(* stop-line freeze rule applies or its speed is already 0 from an earlier *)
(* freeze; on every other tick its position strictly increases.            *)
(***************************************************************************)
C8_NoAdvanceIffFreezeOrStalled ==
    [][IsUpdateStep =>
         \A li \in DOMAIN lanes : \A p \in ToSet(lanes[li].vehicles) :
            IF FreezesNow(li, p) \/ heap[p].speed = 0
            THEN heap'[p].position = heap[p].position
            ELSE heap'[p].position > heap[p].position]_vars

\* a stopped vehicle under GREEN next to a vehicle that is past its stop line
C8_Witness ==
    /\ pc = "display"
    /\ \E p, q \in InLanes(lanes) :
          /\ heap[p].speed = 0
          /\ lanes[heap[p].currentLane].light.state = "GREEN"
          /\ heap[q].speed > 0
          /\ heap[q].position >= lanes[heap[q].currentLane].length - 10 * PosUnit

(***************************************************************************)
(* C9: a vehicle removed from its lane's collection leaves the             *)
(* simulation's collection in the same tick: Simulation::vehicles holds no *)
(* vehicle that is absent from every lane's collection.                    *)
(***************************************************************************)
C9_ExitedLeaveSimulation ==
    \A p \in ToSet(vehicles) : p \in InLanes(lanes)

(***************************************************************************)
(* C10: a tick spawns at most one vehicle, each spawned vehicle takes the  *)
(* current value of the id counter and the counter then grows by one: the  *)
(* vehicles spawned so far have the ids 1..n in spawn order and the        *)
(* counter is n+1.                                                         *)
(***************************************************************************)
C10_IdsInSpawnOrder ==
    /\ Len(heap) <= updates
    /\ Len(vehicles) = Len(heap)
    /\ \A i \in DOMAIN vehicles : heap[vehicles[i]].id = i
    /\ \A p, q \in DOMAIN heap : p # q => heap[p].id # heap[q].id
    /\ nextId = Len(heap) + 1

\* as many vehicles spawned as the run lets spawn, at least two
C10_Witness ==
    /\ Len(vehicles) = MaxVehicles
    /\ Len(vehicles) >= 2
    /\ nextId = MaxVehicles + 1

(***************************************************************************)
(* C11: every vehicle in a lane's collection has its currentLane           *)
(* back-reference equal to that lane, and so is in at most one lane's      *)
(* collection (and there only once).                                       *)
(***************************************************************************)
C11_BackReference ==
    /\ \A li \in DOMAIN lanes : \A i \in DOMAIN lanes[li].vehicles :
          heap[lanes[li].vehicles[i]].currentLane = li
    /\ \A li, lj \in DOMAIN lanes :
          \A i \in DOMAIN lanes[li].vehicles : \A j \in DOMAIN lanes[lj].vehicles :
             lanes[li].vehicles[i] = lanes[lj].vehicles[j] => li = lj /\ i = j

\* both lanes hold a vehicle that has moved
C11_Witness ==
    /\ Len(lanes) = 2
    /\ \A li \in DOMAIN lanes :
          /\ lanes[li].vehicles # <<>>
          /\ heap[lanes[li].vehicles[1]].position > 0

(***************************************************************************)
(* C12: in Simulation::display every vehicle visited gets an index in      *)
(* [0,49], the truncation of position/length*50 (one less where rounding   *)
(* puts the product just below a whole number), and the write into the     *)
(* 50-character road is made at that index: no write is outside the road.  *)
(***************************************************************************)
C12_WritesInsideRoad ==
    \A li \in DOMAIN screen :
       /\ DOMAIN screen[li].road = 1..50
       /\ \A k \in DOMAIN screen[li].marks :
             LET p == screen[li].marks[k][1]
                 pos == screen[li].marks[k][2]
                 wrote == screen[li].marks[k][3]
             IN /\ pos \in 0..49
                /\ wrote
                /\ screen[li].road[pos + 1] # "-"
                /\ pc = "loop" =>
                      /\ pos * lanes[li].length <= heap[p].position * 50
                      /\ heap[p].position * 50 <= (pos + 1) * lanes[li].length

\* display has drawn a vehicle in the last cell of the road
C12_Witness ==
    /\ pc = "loop"
    /\ \E li \in DOMAIN screen : \E k \in DOMAIN screen[li].marks :
          /\ screen[li].marks[k][2] = 49
          /\ screen[li].marks[k][3]
          /\ screen[li].road[50] # "-"

(***************************************************************************)
(* C13: for any positive step, a TrafficLight::update whose timer + step   *)
(* reaches the duration of the current state goes to the next state of the *)
(* cycle, one transition only however large the step, and sets the timer   *)
(* to exactly 0: the excess is not carried over. Otherwise the state stays *)
(* and the timer has grown by step.                                        *)
(***************************************************************************)
C13_TimerResetOneTransition ==
    [][IsUpdateStep =>
         \A li \in DOMAIN lanes :
            LET old == lanes[li].light
                new == lanes'[li].light
                step == simTime' - simTime
            IN IF old.timer + step >= DwellTime(old.state)
               THEN new.state = CycleNext(old.state) /\ new.timer = 0
               ELSE new.state = old.state /\ new.timer = old.timer + step]_vars

\* a YELLOW light has just gone RED, with timer 0, on a step longer than the
\* durations of YELLOW and RED together
C13_Witness ==
    /\ pc = "display"
    /\ screen # <<>>
    /\ \E li \in DOMAIN lanes :
          /\ screen[li].light = "yellow"
          /\ simTime - screen[li].time > 3 + 7
          /\ lanes[li].light.state = "RED"
          /\ lanes[li].light.timer = 0

(***************************************************************************)
(* C14: when the stop-line freeze condition does not hold (light GREEN, or *)
(* position already >= length-10, or candidate < length-10), Vehicle::move *)
(* sets the position to the candidate and leaves the speed unchanged; a    *)
(* vehicle at or past the stop line keeps advancing under RED or YELLOW.   *)
(***************************************************************************)
C14_AdvancesOtherwise ==
    [][IsUpdateStep =>
         \A li \in DOMAIN lanes : \A p \in ToSet(lanes[li].vehicles) :
            ~FreezesNow(li, p) =>
               /\ heap'[p].position = heap[p].position + Mps(heap[p].speed)
               /\ heap'[p].speed = heap[p].speed]_vars

\* a vehicle drawn by the last display has just left its lane under a light that is
\* not GREEN, by a move that started at or past the stop line
C14_Witness ==
    /\ pc = "display"
    /\ \E li \in DOMAIN screen : \E k \in DOMAIN screen[li].marks :
          LET p == screen[li].marks[k][1] IN
          /\ p \notin ToSet(lanes[li].vehicles)
          /\ lanes[li].light.state # "GREEN"
          /\ heap[p].speed > 0
          /\ heap[p].position - Mps(heap[p].speed) >= lanes[li].length - 10 * PosUnit

(***************************************************************************)
(* C15: within one Lane::update the light is advanced before any vehicle   *)
(* moves: a vehicle that would cross the stop line on the tick the light   *)
(* turns GREEN is not stopped, one that would cross on the tick the light  *)
(* turns YELLOW is stopped.                                                *)
(***************************************************************************)
C15_LightBeforeVehicles ==
    [][IsUpdateStep =>
         \A li \in DOMAIN lanes : \A p \in ToSet(lanes[li].vehicles) :
            LET crossing == /\ heap[p].position < lanes[li].length - 10 * PosUnit
                            /\ heap[p].position + Mps(heap[p].speed)
                                  >= lanes[li].length - 10 * PosUnit
            IN crossing =>
                  /\ lanes[li].light.state = "RED" /\ lanes'[li].light.state = "GREEN" =>
                        /\ heap'[p].speed = heap[p].speed
                        /\ heap'[p].position = heap[p].position + Mps(heap[p].speed)
                  /\ lanes[li].light.state = "GREEN" /\ lanes'[li].light.state = "YELLOW" =>
                        /\ heap'[p].speed = 0
                        /\ heap'[p].position = heap[p].position]_vars

\* a vehicle has just crossed the stop line in the update that turned the light GREEN
C15_Witness ==
    /\ pc = "display"
    /\ \E li \in DOMAIN lanes : \E p \in ToSet(lanes[li].vehicles) :
          /\ lanes[li].light.state = "GREEN"
          /\ dwell[li] = 0
          /\ heap[p].speed > 0
          /\ heap[p].position >= lanes[li].length - 10 * PosUnit
          /\ heap[p].position - Mps(heap[p].speed) < lanes[li].length - 10 * PosUnit

\* the other case: a vehicle has been stopped at the stop line in the update that
\* turned the light YELLOW; it has moved on every tick since its spawn but this one,
\* the GREEN ones before this tick included
C15_WitnessYellow ==
    /\ pc = "display"
    /\ \E li \in DOMAIN lanes : \E p \in ToSet(lanes[li].vehicles) :
          /\ lanes[li].light.state = "YELLOW"
          /\ dwell[li] = 0
          /\ heap[p].speed = 0
          /\ \E speed \in Speeds :
                /\ heap[p].position + Mps(speed) >= lanes[li].length - 10 * PosUnit
                /\ heap[p].position >= (simTime - LastSpawnTick) * Mps(speed)

(***************************************************************************)
(* C16: within one Simulation::update the time advances, then the vehicle  *)
(* is spawned, then the lanes are updated: a vehicle spawned in a tick is  *)
(* moved in that tick, so at the end of it its position is its one-tick    *)
(* displacement, not 0, and simTime is one more than before the tick.      *)
(***************************************************************************)
C16_SpawnedVehicleMovesSameTick ==
    [][IsUpdateStep =>
         /\ simTime' = simTime + 1
         /\ \A p \in DOMAIN heap' :
               p \notin DOMAIN heap =>
                  /\ heap'[p].position = Mps(heap'[p].speed)
                  /\ heap'[p].position > 0
                  /\ p \in InLanes(lanes')]_vars

\* the spawn tick of the second vehicle has ended: it stands one displacement from
\* the start of its lane
C16_Witness ==
    /\ pc = "display"
    /\ Len(heap) = 2
    /\ heap[2].position = Mps(heap[2].speed)
    /\ heap[2].position > 0
    /\ simTime > 0

(***************************************************************************)
(* C17: a lane's collection keeps insertion order: a spawn appends at the  *)
(* end, a removal in Lane::update deletes only the exiting vehicle and     *)
(* neither reorders nor skips the others; the ids in a collection are      *)
(* strictly increasing, and every vehicle present at the start of an       *)
(* update is moved exactly once in it.                                     *)
(***************************************************************************)
C17_InsertionOrderKept ==
    [][IsUpdateStep =>
         \A li \in DOMAIN lanes :
            LET old == lanes[li].vehicles
                new == lanes'[li].vehicles
                spawned == IF Len(heap') > Len(heap) /\ heap'[Len(heap')].currentLane = li
                           THEN <<Len(heap')>> ELSE <<>>
                Stays(p) == heap'[p].position < lanes[li].length
            IN /\ new = SelectSeq(old \o spawned, Stays)
               /\ \A i, j \in DOMAIN new : i < j => heap'[new[i]].id < heap'[new[j]].id
               /\ \A p \in ToSet(old) :
                     heap'[p].position =
                        IF FreezesNow(li, p) \/ heap[p].speed = 0
                        THEN heap[p].position
                        ELSE heap[p].position + Mps(heap[p].speed)]_vars

\* the first of the two vehicles the last display drew in a lane has just left it,
\* the second, still moving, is what the collection holds
C17_Witness ==
    /\ pc = "display"
    /\ \E li \in DOMAIN screen :
          /\ Len(screen[li].marks) = 2
          /\ screen[li].marks[1][1] = 1
          /\ screen[li].marks[2][1] = 2
          /\ lanes[li].vehicles = <<2>>
          /\ heap[1].position >= lanes[li].length
          /\ heap[2].speed > 0

(***************************************************************************)
(* C18: after construction and after every TrafficLight::update, for every *)
(* positive step, the timer is at least 0 and below the duration of the    *)
(* current state (green 10, yellow 3, red 7).                              *)
(***************************************************************************)
C18_TimerBelowDuration ==
    \A li \in DOMAIN lanes :
       /\ lanes[li].light.timer >= 0
       /\ lanes[li].light.timer < DwellTime(lanes[li].light.state)

\* a GREEN light one unit short of its duration, reached by steps that were not all 1
C18_Witness ==
    /\ updates < simTime
    /\ \E li \in DOMAIN lanes :
          lanes[li].light.state = "GREEN" /\ lanes[li].light.timer = 9

(***************************************************************************)
(* C19: every lane's light is constructed RED with timer 0, and with step  *)
(* 1 its state depends on the elapsed time t alone: RED when t mod 20 is   *)
(* in 0..6, GREEN in 7..16, YELLOW in 17..19; the lights of all lanes show *)
(* the same state at every tick and none is GREEN during the first 6       *)
(* ticks.                                                                  *)
(***************************************************************************)
C19_LightIsFunctionOfTime ==
    \A li \in DOMAIN lanes :
       LET m == simTime % 20 IN
       /\ simTime = 0 => lanes[li].light.state = "RED" /\ lanes[li].light.timer = 0
       /\ lanes[li].light.state =
             IF m <= 6 THEN "RED" ELSE IF m <= 16 THEN "GREEN" ELSE "YELLOW"
       /\ \A lj \in DOMAIN lanes : lanes[lj].light.state = lanes[li].light.state
       /\ simTime <= 6 => lanes[li].light.state # "GREEN"

\* the third cycle of the lights: tick 57, YELLOW, both lanes holding vehicles
C19_Witness ==
    /\ simTime = 57
    /\ Len(lanes) = 2
    /\ \A li \in DOMAIN lanes :
          lanes[li].light.state = "YELLOW" /\ lanes[li].vehicles # <<>>

====
